---- MODULE Spec2Model ----
(***************************************************************************)
(* Model of pkg/controller/sync/sync.go: syncImpl.ManagedCertificate, the  *)
(* reconciliation pass that keeps a ManagedCertificate (the desired        *)
(* resource) and its SslCertificate (the external resource) consistent.    *)
(*                                                                         *)
(* One pass is a sequence of collaborator calls.  Every call is one        *)
(* action, so that the environment (the user editing the                   *)
(* ManagedCertificate, the remote resource vanishing) and failing          *)
(* collaborators can act between two calls of a pass.                      *)
(***************************************************************************)
EXTENDS Naturals, Sequences, FiniteSets

\* ------------------------------------------------------------------ bounds
MaxNames  == 3   \* names random.Name() can hand out before the model stops generating
MaxFaults == 1   \* collaborator calls that fail with a backend error in one behaviour
MaxEnv    == 3   \* environment steps (user edits, remote changes) in one behaviour

\* ------------------------------------------------------------- value spaces
Ids      == {"a", "b"}                          \* types.CertId
Workers  == {"w1", "w2"}                        \* goroutines calling Sync.ManagedCertificate
Domains  == {"example.com", "example.org"}      \* Spec.Domains of a ManagedCertificate
Names    == 1..MaxNames                         \* SslCertificate names, 0 is "no name"

NoMcrt   == [present |-> FALSE, domains |-> "-", status |-> "-", rv |-> 0]
NoCert   == [present |-> FALSE, domains |-> "-", status |-> "-", owner |-> "-"]
NoEntry  == [tracked |-> FALSE, name |-> 0, softDeleted |-> FALSE,
             excludedFromSLO |-> FALSE, reported |-> FALSE]

\* error values (the err of the Go code); "nil" is no error
ErrNil        == "nil"
ErrBackend    == "BackendError"
ErrNotFound   == "NotFound"                              \* http 404
ErrNotTracked == "ErrManagedCertificateNotFound"         \* errors.ErrManagedCertificateNotFound
ErrOutOfSync  == "ErrSslCertificateOutOfSyncGotDeleted"  \* errors.ErrSslCertificateOutOfSyncGotDeleted

VARIABLES
    mcrts,      \* declarative store: [Ids -> ManagedCertificate or NoMcrt]
    state,      \* State Store: [Ids -> entry or NoEntry]
    ssl,        \* External Resource Manager: [Names -> SslCertificate or NoCert]
    nextName,   \* Name Generator: the next name random.Name() returns
    observed,   \* Metrics Sink: latency observations per id in the life of its current entry
    faults,     \* backend errors injected so far
    envs,       \* environment steps taken so far
    pc,         \* per worker: the call the pass is about to make
    wid,        \* per worker: the id argument of the pass
    mcrt,       \* per worker: the object lister.Get returned (nil is NoMcrt)
    name,       \* per worker: sslCertificateName
    via,        \* per worker: the caller of deleteSslCertificate
    sslCert,    \* per worker: the object ssl.Get returned
    ret,        \* per worker: the value the last pass returned
    prevDrift,  \* per worker: the name the previous pass of this worker deleted when it
                \* returned ErrSslCertificateOutOfSyncGotDeleted for the same id, else 0
    overlap,    \* per id: two passes for the id have been in flight at the same time
    start,      \* per worker: what the current pass found at its start (history)
    log         \* per worker: the collaborator calls of the current (or last) pass

shared == <<mcrts, state, ssl, nextName, observed>>
locals == <<wid, mcrt, name, via, sslCert, prevDrift, overlap, start>>
vars   == <<mcrts, state, ssl, nextName, observed, faults, envs,
            pc, wid, mcrt, name, via, sslCert, ret, prevDrift, overlap, start, log>>

NoRet == [err |-> "none", op |-> "none"]
Nil   == [err |-> ErrNil, op |-> "none"]
Err(e, op) == [err |-> e, op |-> op]

Init ==
    /\ mcrts = [i \in Ids |-> NoMcrt]
    /\ state = [i \in Ids |-> NoEntry]
    /\ ssl = [n \in Names |-> NoCert]
    /\ nextName = 1
    /\ observed = [i \in Ids |-> 0]
    /\ faults = 0
    /\ envs = 0
    /\ pc = [w \in Workers |-> "idle"]
    /\ wid = [w \in Workers |-> "a"]
    /\ mcrt = [w \in Workers |-> NoMcrt]
    /\ name = [w \in Workers |-> 0]
    /\ via = [w \in Workers |-> "none"]
    /\ sslCert = [w \in Workers |-> NoCert]
    /\ ret = [w \in Workers |-> NoRet]
    /\ prevDrift = [w \in Workers |-> 0]
    /\ overlap = [i \in Ids |-> FALSE]
    /\ start = [w \in Workers |-> [id |-> "a", envs |-> 0, kind |-> "absent",
                                     excluded |-> FALSE, pending |-> FALSE]]
    /\ log = [w \in Workers |-> <<>>]

\* ------------------------------------------------------- collaborators
\* The State Store (pkg/controller/state), the SslCertificateManager, the
\* comparator (pkg/controller/certificates), utils/http and utils/random are
\* consumed through their interfaces; their behaviour is taken from the
\* specification of those interfaces.

\* Whether one more collaborator call may fail with a backend error.
Fails == IF faults < MaxFaults THEN {TRUE, FALSE} ELSE {FALSE}

\* state.GetSslCertificateName(id): (name, err)
GetSslCertificateName(id, fail) ==
    IF fail THEN [name |-> 0, err |-> ErrBackend]
    ELSE IF ~state[id].tracked THEN [name |-> 0, err |-> ErrNotTracked]
    ELSE [name |-> state[id].name, err |-> ErrNil]

\* state.IsSoftDeleted / IsExcludedFromSLO / IsSslCertificateCreationReported: (bool, err)
ReadFlag(id, flag, fail) ==
    IF fail THEN [val |-> FALSE, err |-> ErrBackend]
    ELSE IF ~state[id].tracked THEN [val |-> FALSE, err |-> ErrNotTracked]
    ELSE [val |-> state[id][flag], err |-> ErrNil]

\* state.SetSoftDeleted / SetSslCertificateCreationReported: err, and the store after it
WriteFlag(id, flag, fail) ==
    IF fail THEN [st |-> state, err |-> ErrBackend]
    ELSE IF ~state[id].tracked THEN [st |-> state, err |-> ErrNotTracked]
    ELSE [st |-> [state EXCEPT ![id][flag] = TRUE], err |-> ErrNil]

\* state.SetSslCertificateName(id, n): adds the entry, or overwrites the name of the entry
SetSslCertificateName(id, n) ==
    IF state[id].tracked THEN [state EXCEPT ![id].name = n]
    ELSE [state EXCEPT ![id] = [tracked |-> TRUE, name |-> n, softDeleted |-> FALSE,
                                excludedFromSLO |-> FALSE, reported |-> FALSE]]

\* state.Delete(id)
StateRemove(id) == [state EXCEPT ![id] = NoEntry]

\* http.IsNotFound(err), http.IgnoreNotFound(err)
IsNotFound(err) == err = ErrNotFound
IgnoreNotFound(err) == IF IsNotFound(err) THEN ErrNil ELSE err

\* certificates.Equal(mcrt, sslCert): compares the domain lists only
Equal(m, c) == m.domains = c.domains

\* certificates.CopyStatus(sslCert, mcrt, config): sets mcrt.Status, leaves mcrt.Spec
CopyStatus(c, m) == [m EXCEPT !.status = c.status]

\* ------------------------------------------------ decisions of sync.go
\* ReuseName that never finds the recorded name
ReuseName_Never(err) == FALSE

\* line 69: the recorded name is reused when the lookup returned no error
ReuseName(err) == err = ErrNil

\* AbsentBranch without the test of line 171
AbsentBranch_NoNotTrackedTest(err) ==
    IF err = ErrBackend THEN "return_err" ELSE "delete"

\* AbsentBranch that returns nil without finalizing (lines 177-178 skipped)
AbsentBranch_NoFinalize(err) ==
    IF err = ErrNotTracked THEN "return_nil"
    ELSE IF err # ErrNil THEN "return_err"
    ELSE "return_nil"

\* lines 171-178: the branch taken after the name lookup of an absent ManagedCertificate
AbsentBranch(err) ==
    IF err = ErrNotTracked THEN "return_nil"
    ELSE IF err # ErrNil THEN "return_err"
    ELSE "delete"

\* NeedsCreate without the test of line 140
NeedsCreate_Always(exists) == TRUE

\* line 140: Create is issued when Exists returned false
NeedsCreate(exists) == ~exists

\* AfterExists with the latency observation moved out of the branch of line 140
AfterExists_ObserveOutside(exists) ==
    IF NeedsCreate(exists) THEN "Create" ELSE "IsExcludedFromSLO"

\* lines 140-150: Create and the latency observation belong to the branch taken
\* when Exists returned false; otherwise ensureSslCertificate goes on to Get
AfterExists(exists) == IF NeedsCreate(exists) THEN "Create" ELSE "Get"

\* SkipExcluded without the test of line 88
SkipExcluded_Never(excludedFromSLO) == FALSE

\* lines 88, 97: the latency observation is skipped
SkipExcluded(excludedFromSLO) == excludedFromSLO
SkipReported(reported) == reported

\* InSync that never takes the drift branch of lines 159-164
InSync_Always(equal) == TRUE

\* InSync that always takes the drift branch
InSync_Never(equal) == FALSE

\* lines 155-157: ensureSslCertificate returns the fetched resource when Equal holds
InSync(equal) == equal

\* TakeSoftDelete without the branch of lines 192-195
TakeSoftDelete_Never(softDeleted) == FALSE

\* line 192: the entry is soft deleted
TakeSoftDelete(softDeleted) == softDeleted

\* SetSoftDeletedFailed that ignores the error of line 117
SetSoftDeletedFailed_Ignored(err) == FALSE

\* lines 117-119: deleteSslCertificate returns when the entry could not be marked
SetSoftDeletedFailed(err) == err # ErrNil

\* DeleteConfirmed that ignores every error of Delete
DeleteConfirmed_AnyError(err) == TRUE

\* lines 123-125: the remote deletion is confirmed when Delete returned nil or not-found
DeleteConfirmed(err) == IgnoreNotFound(err) = ErrNil

\* DeleteReturn without the sentinel of line 164
DeleteReturn_AlwaysNil(v) == Nil

\* lines 129, 164, 178, 194: what the pass returns once deleteSslCertificate succeeded
DeleteReturn(v) ==
    IF v = "drift" THEN Err(ErrOutOfSync, "ensureSslCertificate") ELSE Nil

\* PassId that keys the collaborators by one fixed id
PassId_Fixed(id) == "a"

\* lines 167-208: the id of the call is the key handed to every collaborator
PassId(id) == id

\* ----------------------------------------------------- bookkeeping
Entry(op, arg, res, err) == [op |-> op, arg |-> arg, res |-> res, err |-> err]

Call(w, op, arg, res, err) ==
    log' = [log EXCEPT ![w] = Append(@, Entry(op, arg, res, err))]

Goto(w, l) == pc' = [pc EXCEPT ![w] = l] /\ ret' = ret

Return(w, r) == pc' = [pc EXCEPT ![w] = "done"] /\ ret' = [ret EXCEPT ![w] = r]

Fault(fail) == faults' = IF fail THEN faults + 1 ELSE faults

InFlight(w) == pc[w] \notin {"idle", "done"}

\* At most one Sync call per id is in flight: the caller's obligation.
SingleFlight(w, id) == \A v \in Workers \ {w} : ~(InFlight(v) /\ wid[v] = id)

\* The SslCertificates that were created for the id.
Owned(id) == {n \in Names : ssl[n].present /\ ssl[n].owner = id}

\* The SslCertificate of the id exists under the recorded name with the desired domains.
Settled(id) ==
    /\ mcrts[id].present
    /\ state[id].tracked /\ ~state[id].softDeleted
    /\ Owned(id) = {state[id].name}
    /\ ssl[state[id].name].domains = mcrts[id].domains

\* The recorded SslCertificate exists with domains other than the desired ones.
OutOfSync(id) ==
    /\ mcrts[id].present
    /\ state[id].tracked /\ ~state[id].softDeleted
    /\ ssl[state[id].name].present
    /\ ssl[state[id].name].domains # mcrts[id].domains

\* The pass created the SslCertificate and ended before the latency observation.
CreatedUnobserved(w) ==
    /\ pc[w] = "done" /\ ret[w].err # ErrNil
    /\ \E i \in 1..Len(log[w]) : log[w][i].op = "ssl.Create" /\ log[w][i].err = ErrNil
    /\ log[w][Len(log[w])].op \in {"state.IsExcludedFromSLO",
                                   "state.IsSslCertificateCreationReported"}

\* What a pass finds when it starts: the situation of the id.
Found(id) ==
    IF Settled(id) THEN "settled"
    ELSE IF OutOfSync(id) THEN "outofsync"
    ELSE IF mcrts[id].present /\ ~state[id].tracked /\ Owned(id) = {} THEN "new"
    ELSE IF ~mcrts[id].present /\ ~state[id].tracked THEN "absent"
    ELSE "other"

\* ------------------------------------------------- ManagedCertificate
\* A worker is handed an id and enters syncImpl.ManagedCertificate.
SyncStart(w, id) ==
    /\ ~InFlight(w)
    /\ pc' = [pc EXCEPT ![w] = "ListerGet"]
    /\ wid' = [wid EXCEPT ![w] = PassId(id)]
    /\ mcrt' = [mcrt EXCEPT ![w] = NoMcrt]
    /\ name' = [name EXCEPT ![w] = 0]
    /\ via' = [via EXCEPT ![w] = "none"]
    /\ sslCert' = [sslCert EXCEPT ![w] = NoCert]
    /\ ret' = [ret EXCEPT ![w] = NoRet]
    /\ prevDrift' = [prevDrift EXCEPT ![w] =
            IF ret[w].err = ErrOutOfSync /\ wid[w] = id THEN name[w] ELSE 0]
    /\ overlap' = [overlap EXCEPT ![id] =
            @ \/ \E u \in Workers \ {w} : InFlight(u) /\ wid[u] = id]
    /\ start' = [start EXCEPT ![w] =
            [id |-> id, envs |-> envs, kind |-> Found(id),
             excluded |-> state[id].tracked /\ state[id].excludedFromSLO,
             pending |-> wid[w] = id /\ CreatedUnobserved(w)]]
    /\ log' = [log EXCEPT ![w] = <<>>]
    /\ UNCHANGED <<shared, faults, envs>>

\* line 168: s.lister.ManagedCertificates(id.Namespace).Get(id.Name); lines 169, 179
ListerGet(w) ==
    /\ pc[w] = "ListerGet"
    /\ \E fail \in Fails :
        LET err == IF fail THEN ErrBackend
                   ELSE IF ~mcrts[wid[w]].present THEN ErrNotFound ELSE ErrNil
        IN  /\ Fault(fail)
            /\ Call(w, "lister.Get", 0, "-", err)
            /\ IF IsNotFound(err) THEN Goto(w, "AbsentGetName") /\ mcrt' = mcrt
               ELSE IF err # ErrNil THEN Return(w, Err(err, "lister.Get")) /\ mcrt' = mcrt
               ELSE Goto(w, "EnsureGetName") /\ mcrt' = [mcrt EXCEPT ![w] = mcrts[wid[w]]]
    /\ UNCHANGED <<shared, envs, wid, name, via, sslCert, prevDrift, overlap, start>>

\* lines 170-178: the ManagedCertificate is gone; look the entry up
AbsentGetName(w) ==
    /\ pc[w] = "AbsentGetName"
    /\ \E fail \in Fails :
        LET r == GetSslCertificateName(wid[w], fail)
            b == AbsentBranch(r.err)
        IN  /\ Fault(fail)
            /\ Call(w, "state.GetSslCertificateName", r.name, "-", r.err)
            /\ IF b = "return_nil" THEN Return(w, Nil) /\ UNCHANGED <<name, via>>
               ELSE IF b = "return_err"
               THEN Return(w, Err(r.err, "state.GetSslCertificateName")) /\ UNCHANGED <<name, via>>
               ELSE /\ Goto(w, "SetSoftDeleted")
                    /\ name' = [name EXCEPT ![w] = r.name]
                    /\ via' = [via EXCEPT ![w] = "absent"]
    /\ UNCHANGED <<shared, envs, wid, mcrt, sslCert, prevDrift, overlap, start>>

\* line 69: ensureSslCertificateName looks the name up
EnsureGetName(w) ==
    /\ pc[w] = "EnsureGetName"
    /\ \E fail \in Fails :
        LET r == GetSslCertificateName(wid[w], fail)
        IN  /\ Fault(fail)
            /\ Call(w, "state.GetSslCertificateName", r.name, "-", r.err)
            /\ IF ReuseName(r.err)
               THEN Goto(w, "IsSoftDeleted") /\ name' = [name EXCEPT ![w] = r.name]
               ELSE Goto(w, "RandomName") /\ name' = name
    /\ UNCHANGED <<shared, envs, wid, mcrt, via, sslCert, prevDrift, overlap, start>>

\* lines 73-76: s.random.Name()
RandomName(w) ==
    /\ pc[w] = "RandomName"
    /\ \E fail \in Fails :
        /\ Fault(fail)
        /\ IF fail
           THEN /\ Call(w, "random.Name", 0, "-", ErrBackend)
                /\ Return(w, Err(ErrBackend, "random.Name"))
                /\ UNCHANGED <<name, nextName>>
           ELSE /\ nextName <= MaxNames
                /\ Call(w, "random.Name", nextName, "-", ErrNil)
                /\ Goto(w, "SetName")
                /\ name' = [name EXCEPT ![w] = nextName]
                /\ nextName' = nextName + 1
    /\ UNCHANGED <<mcrts, state, ssl, observed, envs, wid, mcrt, via, sslCert, prevDrift, overlap, start>>

\* line 79: s.state.SetSslCertificateName(id, sslCertificateName)
SetName(w) ==
    /\ pc[w] = "SetName"
    /\ state' = SetSslCertificateName(wid[w], name[w])
    /\ Call(w, "state.SetSslCertificateName", name[w], "-", ErrNil)
    /\ Goto(w, "IsSoftDeleted")
    /\ UNCHANGED <<mcrts, ssl, nextName, observed, faults, envs, locals>>

\* lines 190-195: s.state.IsSoftDeleted(id)
IsSoftDeleted(w) ==
    /\ pc[w] = "IsSoftDeleted"
    /\ \E fail \in Fails :
        LET r == ReadFlag(wid[w], "softDeleted", fail)
        IN  /\ Fault(fail)
            /\ Call(w, "state.IsSoftDeleted", 0, IF r.val THEN "true" ELSE "false", r.err)
            /\ IF r.err # ErrNil THEN Return(w, Err(r.err, "state.IsSoftDeleted")) /\ via' = via
               ELSE IF TakeSoftDelete(r.val)
               THEN Goto(w, "SetSoftDeleted") /\ via' = [via EXCEPT ![w] = "soft"]
               ELSE Goto(w, "Exists") /\ via' = via
    /\ UNCHANGED <<shared, envs, wid, mcrt, name, sslCert, prevDrift, overlap, start>>

\* line 135: s.ssl.Exists(sslCertificateName, mcrt); line 140
Exists(w) ==
    /\ pc[w] = "Exists"
    /\ \E fail \in Fails :
        LET exists == ssl[name[w]].present
        IN  /\ Fault(fail)
            /\ IF fail
               THEN /\ Call(w, "ssl.Exists", name[w], "-", ErrBackend)
                    /\ Return(w, Err(ErrBackend, "ssl.Exists"))
               ELSE /\ Call(w, "ssl.Exists", name[w], IF exists THEN "true" ELSE "false", ErrNil)
                    /\ Goto(w, AfterExists(exists))
    /\ UNCHANGED <<shared, envs, locals>>

\* line 141: s.ssl.Create(ctx, sslCertificateName, *mcrt); a name in use is a conflict
Create(w) ==
    /\ pc[w] = "Create"
    /\ \E fail \in Fails :
        LET err == IF fail \/ ssl[name[w]].present THEN ErrBackend ELSE ErrNil
        IN  /\ Fault(fail)
            /\ Call(w, "ssl.Create", name[w], "-", err)
            /\ IF err # ErrNil
               THEN Return(w, Err(err, "ssl.Create")) /\ ssl' = ssl
               ELSE /\ Goto(w, "IsExcludedFromSLO")
                    /\ ssl' = [ssl EXCEPT ![name[w]] =
                          [present |-> TRUE, domains |-> mcrt[w].domains,
                           status |-> "Provisioning", owner |-> wid[w]]]
    /\ UNCHANGED <<mcrts, state, nextName, observed, envs, locals>>

\* lines 84-91: s.state.IsExcludedFromSLO(id)
IsExcludedFromSLO(w) ==
    /\ pc[w] = "IsExcludedFromSLO"
    /\ \E fail \in Fails :
        LET r == ReadFlag(wid[w], "excludedFromSLO", fail)
        IN  /\ Fault(fail)
            /\ Call(w, "state.IsExcludedFromSLO", 0, IF r.val THEN "true" ELSE "false", r.err)
            /\ IF r.err # ErrNil THEN Return(w, Err(r.err, "state.IsExcludedFromSLO"))
               ELSE IF SkipExcluded(r.val) THEN Goto(w, "Get")
               ELSE Goto(w, "IsReported")
    /\ UNCHANGED <<shared, envs, locals>>

\* lines 93-99: s.state.IsSslCertificateCreationReported(id)
IsReported(w) ==
    /\ pc[w] = "IsReported"
    /\ \E fail \in Fails :
        LET r == ReadFlag(wid[w], "reported", fail)
        IN  /\ Fault(fail)
            /\ Call(w, "state.IsSslCertificateCreationReported", 0,
                    IF r.val THEN "true" ELSE "false", r.err)
            /\ IF r.err # ErrNil
               THEN Return(w, Err(r.err, "state.IsSslCertificateCreationReported"))
               ELSE IF SkipReported(r.val) THEN Goto(w, "Get")
               ELSE Goto(w, "Observe")
    /\ UNCHANGED <<shared, envs, locals>>

\* lines 101-106: s.metrics.ObserveSslCertificateCreationLatency(creationTime).
\* time.Parse of the RFC3339 form of a Kubernetes timestamp does not fail.
Observe(w) ==
    /\ pc[w] = "Observe"
    /\ observed' = [observed EXCEPT ![wid[w]] = @ + 1]
    /\ Call(w, "metrics.Observe", 0, "-", ErrNil)
    /\ Goto(w, "SetReported")
    /\ UNCHANGED <<mcrts, state, ssl, nextName, faults, envs, locals>>

\* lines 107-109: s.state.SetSslCertificateCreationReported(id)
SetReported(w) ==
    /\ pc[w] = "SetReported"
    /\ \E fail \in Fails :
        LET r == WriteFlag(wid[w], "reported", fail)
        IN  /\ Fault(fail)
            /\ Call(w, "state.SetSslCertificateCreationReported", 0, "-", r.err)
            /\ state' = r.st
            /\ IF r.err # ErrNil
               THEN Return(w, Err(r.err, "state.SetSslCertificateCreationReported"))
               ELSE Goto(w, "Get")
    /\ UNCHANGED <<mcrts, ssl, nextName, observed, envs, locals>>

\* lines 150-160: s.ssl.Get(sslCertificateName, mcrt), then certificates.Equal
Get(w) ==
    /\ pc[w] = "Get"
    /\ \E fail \in Fails :
        LET err == IF fail THEN ErrBackend
                   ELSE IF ~ssl[name[w]].present THEN ErrNotFound ELSE ErrNil
        IN  /\ Fault(fail)
            /\ Call(w, "ssl.Get", name[w], ssl[name[w]].domains, err)
            /\ IF err # ErrNil
               THEN Return(w, Err(err, "ssl.Get")) /\ UNCHANGED <<sslCert, via>>
               ELSE /\ sslCert' = [sslCert EXCEPT ![w] = ssl[name[w]]]
                    /\ IF InSync(Equal(mcrt[w], ssl[name[w]]))
                       THEN Goto(w, "CopyStatus") /\ via' = via
                       ELSE Goto(w, "SetSoftDeleted") /\ via' = [via EXCEPT ![w] = "drift"]
    /\ UNCHANGED <<shared, envs, wid, mcrt, name, prevDrift, overlap, start>>

\* lines 117-120: deleteSslCertificate marks the entry soft deleted
SetSoftDeleted(w) ==
    /\ pc[w] = "SetSoftDeleted"
    /\ \E fail \in Fails :
        LET r == WriteFlag(wid[w], "softDeleted", fail)
        IN  /\ Fault(fail)
            /\ Call(w, "state.SetSoftDeleted", 0, "-", r.err)
            /\ state' = r.st
            /\ IF SetSoftDeletedFailed(r.err)
               THEN Return(w, Err(r.err, "state.SetSoftDeleted"))
               ELSE Goto(w, "SslDelete")
    /\ UNCHANGED <<mcrts, ssl, nextName, observed, envs, locals>>

\* lines 122-125: http.IgnoreNotFound(s.ssl.Delete(ctx, sslCertificateName, mcrt))
SslDelete(w) ==
    /\ pc[w] = "SslDelete"
    /\ \E fail \in Fails :
        LET err == IF fail THEN ErrBackend
                   ELSE IF ~ssl[name[w]].present THEN ErrNotFound ELSE ErrNil
        IN  /\ Fault(fail)
            /\ Call(w, "ssl.Delete", name[w], "-", err)
            /\ ssl' = IF err = ErrNil THEN [ssl EXCEPT ![name[w]] = NoCert] ELSE ssl
            /\ IF DeleteConfirmed(err)
               THEN Goto(w, "StateDelete")
               ELSE Return(w, Err(err, "ssl.Delete"))
    /\ UNCHANGED <<mcrts, state, nextName, observed, envs, locals>>

\* lines 127-129: s.state.Delete(id); then lines 164, 178, 194.
\* The life of the entry ends here, so the count of its observations restarts.
StateDelete(w) ==
    /\ pc[w] = "StateDelete"
    /\ state' = StateRemove(wid[w])
    /\ observed' = [observed EXCEPT ![wid[w]] = 0]
    /\ Call(w, "state.Delete", 0, "-", ErrNil)
    /\ Return(w, DeleteReturn(via[w]))
    /\ UNCHANGED <<mcrts, ssl, nextName, faults, envs, locals>>

\* lines 202-204: certificates.CopyStatus(*sslCert, mcrt, s.config)
DoCopyStatus(w) ==
    /\ pc[w] = "CopyStatus"
    /\ \E fail \in Fails :
        /\ Fault(fail)
        /\ Call(w, "certificates.CopyStatus", 0, "-", IF fail THEN ErrBackend ELSE ErrNil)
        /\ IF fail
           THEN Return(w, Err(ErrBackend, "certificates.CopyStatus")) /\ mcrt' = mcrt
           ELSE Goto(w, "Update") /\ mcrt' = [mcrt EXCEPT ![w] = CopyStatus(sslCert[w], @)]
    /\ UNCHANGED <<shared, envs, wid, name, via, sslCert, prevDrift, overlap, start>>

\* lines 206-207: s.client.ManagedCertificates(mcrt.Namespace).Update(mcrt).
\* The store refuses an object that is gone or was edited since it was read.
Update(w) ==
    /\ pc[w] = "Update"
    /\ \E fail \in Fails :
        LET cur == mcrts[wid[w]]
            err == IF fail THEN ErrBackend
                   ELSE IF ~cur.present THEN ErrNotFound
                   ELSE IF cur.rv # mcrt[w].rv THEN ErrBackend
                   ELSE ErrNil
        IN  /\ Fault(fail)
            /\ Call(w, "client.Update", 0, "-", err)
            /\ mcrts' = IF err = ErrNil THEN [mcrts EXCEPT ![wid[w]] = mcrt[w]] ELSE mcrts
            /\ Return(w, IF err = ErrNil THEN Nil ELSE Err(err, "client.Update"))
    /\ UNCHANGED <<state, ssl, nextName, observed, envs, locals>>

\* ------------------------------------------------------- environment
Env == envs < MaxEnv /\ envs' = envs + 1

\* The user creates the ManagedCertificate, edits its domains, deletes it.
UserCreate(id) ==
    /\ Env
    /\ ~mcrts[id].present
    /\ \E d \in Domains :
        mcrts' = [mcrts EXCEPT ![id] =
            [present |-> TRUE, domains |-> d, status |-> "None", rv |-> envs + 1]]
    /\ UNCHANGED <<state, ssl, nextName, observed, faults, pc, locals, ret, log>>

UserEdit(id) ==
    /\ Env
    /\ mcrts[id].present
    /\ \E d \in Domains \ {mcrts[id].domains} :
        mcrts' = [mcrts EXCEPT ![id].domains = d, ![id].rv = envs + 1]
    /\ UNCHANGED <<state, ssl, nextName, observed, faults, pc, locals, ret, log>>

UserDelete(id) ==
    /\ Env
    /\ mcrts[id].present
    /\ mcrts' = [mcrts EXCEPT ![id] = NoMcrt]
    /\ UNCHANGED <<state, ssl, nextName, observed, faults, pc, locals, ret, log>>

\* The remote SslCertificate is removed behind the controller's back.
SslVanish(n) ==
    /\ Env
    /\ ssl[n].present
    /\ ssl' = [ssl EXCEPT ![n] = NoCert]
    /\ UNCHANGED <<mcrts, state, nextName, observed, faults, pc, locals, ret, log>>

\* The remote SslCertificate becomes active.
SslProvisioned(n) ==
    /\ Env
    /\ ssl[n].present /\ ssl[n].status = "Provisioning"
    /\ ssl' = [ssl EXCEPT ![n].status = "Active"]
    /\ UNCHANGED <<mcrts, state, nextName, observed, faults, pc, locals, ret, log>>

\* The controller marks a tracked id as excluded from SLO (state.SetExcludedFromSLO).
ExcludeFromSLO(id) ==
    /\ Env
    /\ state[id].tracked /\ ~state[id].excludedFromSLO
    /\ state' = [state EXCEPT ![id].excludedFromSLO = TRUE]
    /\ UNCHANGED <<mcrts, ssl, nextName, observed, faults, pc, locals, ret, log>>

\* ----------------------------------------------------- specification
Pass(w) ==
    \/ ListerGet(w) \/ AbsentGetName(w) \/ EnsureGetName(w) \/ RandomName(w)
    \/ SetName(w) \/ IsSoftDeleted(w) \/ Exists(w) \/ Create(w)
    \/ IsExcludedFromSLO(w) \/ IsReported(w) \/ Observe(w) \/ SetReported(w)
    \/ Get(w) \/ SetSoftDeleted(w) \/ SslDelete(w) \/ StateDelete(w)
    \/ DoCopyStatus(w) \/ Update(w)

Environment(id) ==
    \/ UserCreate(id) \/ UserEdit(id) \/ UserDelete(id) \/ ExcludeFromSLO(id)
    \/ \E n \in Names : SslVanish(n) \/ SslProvisioned(n)

\* The caller starts a pass for an id only when none is in flight for it.
SingleFlightStart(w, id) == SingleFlight(w, id) /\ SyncStart(w, id)

\* One worker reconciling one id: single-flight holds by construction.
Next ==
    \/ SingleFlightStart("w1", "a")
    \/ Pass("w1")
    \/ Environment("a")

Spec == Init /\ [][Next]_vars

\* =================================================================
\* Properties
\* =================================================================
Calls(w, op) == {i \in 1..Len(log[w]) : log[w][i].op = op}
Called(w, op) == Calls(w, op) # {}
Done(w) == pc[w] = "done"

\* A collaborator call of the pass failed.  The three expected signals are not
\* failures: the lister's not-found, the State Store's not-tracked answer to the
\* name lookup, and not-found on the remote Delete.
Failed(e) ==
    /\ e.err # ErrNil
    /\ ~(e.op = "lister.Get" /\ e.err = ErrNotFound)
    /\ ~(e.op = "state.GetSslCertificateName" /\ e.err = ErrNotTracked)
    /\ ~(e.op = "ssl.Delete" /\ e.err = ErrNotFound)
NoFailure(w) == \A i \in 1..Len(log[w]) : ~Failed(log[w][i])

\* The pass found no ManagedCertificate and no entry.
FullyAbsent(w) ==
    /\ Len(log[w]) >= 2
    /\ log[w][1].op = "lister.Get" /\ log[w][1].err = ErrNotFound
    /\ log[w][2].op = "state.GetSslCertificateName" /\ log[w][2].err = ErrNotTracked

NoOpPass(w) == Done(w) /\ ret[w] = Nil /\ Len(log[w]) = 2

\* C1: a pass that finds neither the ManagedCertificate (lister: not found) nor an
\* entry returns nil and makes no call besides these two lookups: no
\* Exists/Get/Create/Delete, no Update, no metric observation, no State Store write.
C1_AbsentUntrackedIsNoOp == \A w \in Workers : FullyAbsent(w) => NoOpPass(w)

C1_Witness == FullyAbsent("w1") /\ NoOpPass("w1") /\ envs > 0

\* C2: name stability: while an entry exists its name never changes, whatever the
\* passes in between do (every lookup of ensureSslCertificateName during the life
\* of the entry therefore returns one and the same name).
C2_NameNeverChanges ==
    [][\A id \in Ids :
         (state[id].tracked /\ state'[id].tracked) => state'[id].name = state[id].name]_vars

\* C3: whenever Create is about to be issued, the entry exists and records the
\* name passed to Create; and a pass never issues Create for the id while a
\* resource created earlier for the id still exists (no duplicate after a retry).
NameRecordedBeforeCreate ==
    \A w \in Workers :
        pc[w] = "Create" => state[wid[w]].tracked /\ state[wid[w]].name = name[w]

NoDuplicateCreate ==
    \A w \in Workers :
        pc[w] = "Create" => \A n \in Names : ~(ssl[n].present /\ ssl[n].owner = wid[w])

C3_NameBeforeCreateNoDuplicate == NameRecordedBeforeCreate /\ NoDuplicateCreate

\* C4: existence-gated create.  In one pass Create is called at most once, and the
\* call right before it is the Exists of that pass, for the same name, answering
\* false without error; once Exists has answered false the pass's next call is
\* Create; a pass in which Exists answered true never calls Create.
ExistsSaidFalse(e) == e.op = "ssl.Exists" /\ e.res = "false" /\ e.err = ErrNil

C4_ExistenceGatedCreate ==
    \A w \in Workers :
        /\ Cardinality(Calls(w, "ssl.Create")) <= 1
        /\ \A i \in Calls(w, "ssl.Create") :
               i > 1 /\ ExistsSaidFalse(log[w][i - 1]) /\ log[w][i - 1].arg = log[w][i].arg
        /\ \A i \in Calls(w, "ssl.Exists") :
               /\ ExistsSaidFalse(log[w][i]) =>
                    IF i = Len(log[w]) THEN pc[w] = "Create"
                    ELSE log[w][i + 1].op = "ssl.Create"
               /\ ~ExistsSaidFalse(log[w][i]) => ~Called(w, "ssl.Create") /\ pc[w] # "Create"
        /\ Cardinality(Calls(w, "ssl.Exists")) <= 1

\* a finished pass that found the resource missing and created it once
C4_Witness ==
    /\ Done("w1") /\ ret["w1"] = Nil
    /\ Cardinality(Calls("w1", "ssl.Create")) = 1
    /\ \E i \in Calls("w1", "ssl.Exists") : ExistsSaidFalse(log["w1"][i])

\* C5: the Metrics Sink receives at most one creation-latency observation for an
\* id during the life of one entry, whatever errors abort the passes and even when
\* the resource disappears and is created again under the same name.
C5_LatencyAtMostOnce == \A id \in Ids : observed[id] <= 1

\* C6: drift remediation.  When the ManagedCertificate is present, the entry is not
\* soft deleted and ssl.Get returned a resource whose domains differ from the
\* desired ones, a pass in which no collaborator call fails deletes that resource,
\* removes the entry (name included) and returns
\* ErrSslCertificateOutOfSyncGotDeleted; the following pass for the id, when it
\* still finds the ManagedCertificate and no call fails, obtains a name from
\* random.Name() that differs from the deleted one and creates the resource under it.
Drifted(w) ==
    \E i \in Calls(w, "ssl.Get") : log[w][i].err = ErrNil /\ log[w][i].res # mcrt[w].domains

Remediated(w) ==
    /\ ret[w] = Err(ErrOutOfSync, "ensureSslCertificate")
    /\ \E i \in Calls(w, "ssl.Delete") : log[w][i].arg = name[w]
    /\ log[w][Len(log[w])].op = "state.Delete"
    /\ ~state[wid[w]].tracked
    /\ ~ssl[name[w]].present
    /\ ~Called(w, "client.Update")

Recreated(w) ==
    \E i \in Calls(w, "random.Name") :
        /\ log[w][i].arg # prevDrift[w]
        /\ \E j \in Calls(w, "ssl.Create") :
               j > i /\ log[w][j].arg = log[w][i].arg /\ log[w][j].err = ErrNil

C6_DriftRemediation ==
    \A w \in Workers :
        /\ (Done(w) /\ Drifted(w) /\ NoFailure(w)) => Remediated(w)
        /\ (Done(w) /\ prevDrift[w] # 0 /\ mcrt[w].present /\ NoFailure(w)) => Recreated(w)

\* a pass that recreated the resource under a new name right after a remediation
C6_Witness ==
    /\ Done("w1") /\ prevDrift["w1"] # 0 /\ mcrt["w1"].present /\ NoFailure("w1")
    /\ ret["w1"] = Nil /\ Recreated("w1")
    /\ name["w1"] # prevDrift["w1"] /\ ssl[name["w1"]].present

\* C7: soft-delete pass.  When the ManagedCertificate is present and IsSoftDeleted
\* answers true, the pass calls neither Exists, Create, Get nor Update; its remote
\* Delete is issued under the name the entry records; and, unless a collaborator
\* call fails, it removes the entry and returns nil (not-found on Delete counts as
\* success).  A later pass that finds the id fully absent is a no-op.
SoftDeletedPass(w) ==
    \E i \in Calls(w, "state.IsSoftDeleted") : log[w][i].res = "true" /\ log[w][i].err = ErrNil

Deleting(w) == pc[w] \in {"SslDelete", "StateDelete"}

CleanedUp(w) ==
    /\ ret[w] = Nil
    /\ \E i \in Calls(w, "ssl.Delete") : log[w][i].arg = name[w] /\ i = Len(log[w]) - 1
    /\ log[w][Len(log[w])].op = "state.Delete"
    /\ ~state[wid[w]].tracked
    /\ ~ssl[name[w]].present

C7_SoftDeletePass ==
    \A w \in Workers :
        /\ SoftDeletedPass(w) =>
              /\ \A op \in {"ssl.Exists", "ssl.Create", "ssl.Get",
                            "certificates.CopyStatus", "client.Update"} : ~Called(w, op)
              /\ Deleting(w) => state[wid[w]].tracked /\ state[wid[w]].name = name[w]
              /\ (Done(w) /\ NoFailure(w)) => CleanedUp(w)
        /\ FullyAbsent(w) => NoOpPass(w)

\* a finished soft-delete pass of a present ManagedCertificate
C7_Witness ==
    /\ Done("w1") /\ SoftDeletedPass("w1") /\ NoFailure("w1") /\ mcrt["w1"].present
    /\ CleanedUp("w1")

\* C8: finalize deletion.  When the ManagedCertificate is absent and the name
\* lookup returns the recorded name, the pass makes exactly the calls
\* SetSoftDeleted, Delete(recorded name), state.Delete after the two lookups (no
\* random.Name, Exists, Create or Get); unless a collaborator call fails it ends
\* with the entry removed and returns nil, a not-found answer of Delete included.
AbsentTracked(w) ==
    /\ Len(log[w]) >= 2
    /\ log[w][1].op = "lister.Get" /\ log[w][1].err = ErrNotFound
    /\ log[w][2].op = "state.GetSslCertificateName" /\ log[w][2].err = ErrNil

FinalizeOps == <<"lister.Get", "state.GetSslCertificateName", "state.SetSoftDeleted",
                 "ssl.Delete", "state.Delete">>

C8_FinalizeDeletion ==
    \A w \in Workers :
        AbsentTracked(w) =>
            /\ Len(log[w]) <= Len(FinalizeOps)
            /\ \A i \in 1..Len(log[w]) : log[w][i].op = FinalizeOps[i]
            /\ \A i \in Calls(w, "ssl.Delete") : log[w][i].arg = log[w][2].arg
            /\ pc[w] \in {"SetSoftDeleted", "SslDelete", "StateDelete", "done"}
            /\ (Done(w) /\ NoFailure(w)) => Len(log[w]) = Len(FinalizeOps) /\ CleanedUp(w)

\* a finished finalizing pass whose remote Delete answered not-found
C8_Witness ==
    /\ Done("w1") /\ AbsentTracked("w1") /\ NoFailure("w1") /\ CleanedUp("w1")
    /\ \E i \in Calls("w1", "ssl.Delete") : log["w1"][i].err = ErrNotFound

\* C9: an entry is removed only right after a remote Delete for its name, issued
\* in the same pass, returned nil or not-found; when Delete fails with any other
\* error the pass ends there, returns that error, and the entry still exists with
\* its name unchanged.
DeleteFailedAt(w, i) ==
    log[w][i].op = "ssl.Delete" /\ log[w][i].err \notin {ErrNil, ErrNotFound}

RemovedAfterConfirmedDelete(id) ==
    \E w \in Workers :
        LET l == log'[w] IN
        /\ wid[w] = id
        /\ Len(l) = Len(log[w]) + 1 /\ Len(l) >= 2
        /\ l[Len(l)].op = "state.Delete"
        /\ l[Len(l) - 1].op = "ssl.Delete"
        /\ l[Len(l) - 1].arg = state[id].name
        /\ l[Len(l) - 1].err \in {ErrNil, ErrNotFound}

C9_RemovalOnlyAfterConfirmedDelete ==
    /\ [][\A id \in Ids :
            (state[id].tracked /\ ~state'[id].tracked) => RemovedAfterConfirmedDelete(id)]_vars
    /\ [](\A w \in Workers : \A i \in 1..Len(log[w]) :
            DeleteFailedAt(w, i) =>
                /\ i = Len(log[w]) /\ Done(w)
                /\ ret[w] = Err(log[w][i].err, "ssl.Delete")
                /\ state[wid[w]].tracked /\ state[wid[w]].name = log[w][i].arg)

\* a pass ended by a failing remote Delete, the entry still in place
C9_Witness ==
    /\ Done("w1") /\ Len(log["w1"]) > 0 /\ DeleteFailedAt("w1", Len(log["w1"]))
    /\ state["a"].tracked /\ state["a"].name = name["w1"] /\ ssl[name["w1"]].present

\* C10: abort on error.  A failing State Store or SslCertificateManager call is the
\* last call of its pass, and the pass returns the error of that call.  The
\* not-found answer of Delete and the not-tracked answer of a name lookup are the
\* expected signals and no failures; a backend error of the name lookup made by
\* ensureSslCertificateName is a failure like any other.
StoreOrManagerOps ==
    {"state.GetSslCertificateName", "state.SetSslCertificateName", "state.IsSoftDeleted",
     "state.IsExcludedFromSLO", "state.IsSslCertificateCreationReported",
     "state.SetSslCertificateCreationReported", "state.SetSoftDeleted", "state.Delete",
     "ssl.Exists", "ssl.Create", "ssl.Get", "ssl.Delete"}

C10_AbortOnError ==
    \A w \in Workers : \A i \in 1..Len(log[w]) :
        (log[w][i].op \in StoreOrManagerOps /\ Failed(log[w][i])) =>
            /\ i = Len(log[w])
            /\ Done(w)
            /\ ret[w] = Err(log[w][i].err, log[w][i].op)

\* -----------------------------------------------------------------
\* Resumption after a cut pass
\* -----------------------------------------------------------------
\* The pass of w is cut short between two collaborator calls: the caller's
\* context is cancelled or the process stops.  An error a call returns and the
\* pass propagates leaves the stores exactly as a cut before that call does (a
\* failing call changes nothing), so a cut stands for both.
Cut(w) ==
    /\ Env
    /\ InFlight(w)
    /\ Call(w, "cut", 0, "-", "Cancelled")
    /\ Return(w, Err("Cancelled", "cut"))
    /\ UNCHANGED <<shared, faults, locals>>

\* No collaborator fails except through a cut.
InitResume ==
    /\ mcrts = [i \in Ids |-> NoMcrt]
    /\ state = [i \in Ids |-> NoEntry]
    /\ ssl = [n \in Names |-> NoCert]
    /\ nextName = 1
    /\ observed = [i \in Ids |-> 0]
    /\ faults = MaxFaults
    /\ envs = 0
    /\ pc = [w \in Workers |-> "idle"]
    /\ wid = [w \in Workers |-> "a"]
    /\ mcrt = [w \in Workers |-> NoMcrt]
    /\ name = [w \in Workers |-> 0]
    /\ via = [w \in Workers |-> "none"]
    /\ sslCert = [w \in Workers |-> NoCert]
    /\ ret = [w \in Workers |-> NoRet]
    /\ prevDrift = [w \in Workers |-> 0]
    /\ overlap = [i \in Ids |-> FALSE]
    /\ start = [w \in Workers |-> [id |-> "a", envs |-> 0, kind |-> "absent",
                                     excluded |-> FALSE, pending |-> FALSE]]
    /\ log = [w \in Workers |-> <<>>]

NextResume ==
    \/ SingleFlightStart("w1", "a")
    \/ Pass("w1")
    \/ Cut("w1")
    \/ Environment("a")

\* The external scheduler re-invokes Sync for the id again and again, and a pass
\* that is not cut runs on: its collaborator calls are synchronous and return.
SpecResume ==
    /\ InitResume /\ [][NextResume]_vars
    /\ WF_vars(SingleFlightStart("w1", "a"))
    /\ WF_vars(Pass("w1"))

Converged(id) ==
    /\ mcrts[id].present
    /\ state[id].tracked /\ ~state[id].softDeleted
    /\ Owned(id) = {state[id].name}
    /\ ssl[state[id].name].domains = mcrts[id].domains
    /\ mcrts[id].status = ssl[state[id].name].status

FullyCleaned(id) == ~mcrts[id].present /\ ~state[id].tracked /\ Owned(id) = {}

\* C11: safe resumption.  When passes are cut short between two collaborator
\* calls and Sync is re-invoked with no other failure, Create is never issued for
\* an id while a resource created earlier for it still exists, and the id ends up
\* converged (ManagedCertificate present: one resource, under the recorded name,
\* with the desired domains, its status copied) or fully cleaned up
\* (ManagedCertificate absent: no entry, no resource).
C11_SafeResumption ==
    /\ [](NoDuplicateCreate)
    /\ <>[](Converged("a") \/ FullyCleaned("a"))

\* a pass was cut after Create, and the next, uncut pass converged on the same name
C11_Witness ==
    /\ Done("w1") /\ ret["w1"] = Nil /\ ~Called("w1", "cut") /\ ~Called("w1", "ssl.Create")
    /\ Called("w1", "client.Update")
    /\ Converged("a") /\ nextName = 2
    /\ ~state["a"].reported /\ ~state["a"].excludedFromSLO

\* --------------------------------------------------- concurrent calls
\* Two workers reconcile the same id and the caller does not serialise them: a
\* pass may start while another pass for the id is in flight.  Backend calls do
\* not fail here, so every anomaly below is an effect of the interleaving alone.
\* Passes start freely, in flight or not, until two of them have overlapped; the
\* overlapping passes then run to their end.
RaceStart(w, id) == ~overlap[id] /\ SyncStart(w, id)

NextRace ==
    \/ \E w \in Workers : RaceStart(w, "a") \/ Pass(w)
    \/ UserCreate("a") \/ UserEdit("a") \/ UserDelete("a")

SpecRace == InitResume /\ [][NextRace]_vars

\* The pass is about to issue Create although an SslCertificate of its id exists.
DuplicateCreate(w) == pc[w] = "Create" /\ Owned(wid[w]) # {}

\* The pass works under a name that differs from the one the entry records.
NamesDiverge(w) ==
    /\ pc[w] \in {"IsSoftDeleted", "Exists", "Create", "IsExcludedFromSLO",
                  "IsReported", "Observe", "SetReported", "Get",
                  "SetSoftDeleted", "SslDelete", "StateDelete", "CopyStatus", "Update"}
    /\ state[wid[w]].tracked
    /\ state[wid[w]].name # name[w]

\* The entry the pass relies on has been removed under it.
EntryRemovedInUse(w) ==
    /\ pc[w] \in {"IsSoftDeleted", "Exists", "Create", "IsExcludedFromSLO",
                  "IsReported", "Observe", "SetReported", "Get",
                  "SetSoftDeleted", "SslDelete", "StateDelete", "CopyStatus", "Update"}
    /\ ~state[wid[w]].tracked

Raced(w) == DuplicateCreate(w) \/ NamesDiverge(w) \/ EntryRemovedInUse(w)

C12_EntryRemoved == \E w \in Workers : EntryRemovedInUse(w) /\ overlap[wid[w]]


\* ------------------------------------------------------ drift pass
\* The calls a pass makes once the comparator reported a difference.
DriftOps == {"state.SetSoftDeleted", "ssl.Delete", "state.Delete"}

GetAt(w) == CHOOSE i \in Calls(w, "ssl.Get") : TRUE

\* C13: no repair in the drift pass.  In a pass whose ssl.Get returned a resource
\* that differs from the ManagedCertificate, every call after that Get is one of
\* SetSoftDeleted, Delete, state.Delete: no Create follows the Delete, the status
\* is not copied and client.Update is not called; and no step of such a pass
\* brings an SslCertificate into existence or changes the stored ManagedCertificate.
C13_NoRepairInDriftPass ==
    /\ [](\A w \in Workers :
            Drifted(w) =>
                /\ \A i \in 1..Len(log[w]) : i > GetAt(w) => log[w][i].op \in DriftOps
                /\ \A i \in Calls(w, "ssl.Delete") : \A j \in Calls(w, "ssl.Create") : j < i
                /\ ~Called(w, "certificates.CopyStatus") /\ ~Called(w, "client.Update")
                /\ mcrt[w].status = mcrts[wid[w]].status \/ mcrts[wid[w]].rv # mcrt[w].rv
                /\ pc[w] \in {"SetSoftDeleted", "SslDelete", "StateDelete", "done"})
    /\ [][\A w \in Workers :
            (Drifted(w) /\ log'[w] # log[w] /\ Len(log'[w]) > Len(log[w])) =>
                /\ \A n \in Names : ssl'[n].present => ssl[n].present
                /\ mcrts' = mcrts]_vars

\* a finished drift pass: resource deleted, entry removed, the stored
\* ManagedCertificate still without the status of any resource
C13_Witness ==
    /\ Done("w1") /\ Drifted("w1") /\ NoFailure("w1")
    /\ Len(log["w1"]) = GetAt("w1") + 3
    /\ Owned("a") = {} /\ ~state["a"].tracked
    /\ mcrts["a"].present /\ mcrts["a"].rv = mcrt["w1"].rv


\* -------------------------------------------------- converged pass
\* ssl.Get returned a resource whose domains equal the ManagedCertificate's.
InSyncPass(w) ==
    \E i \in Calls(w, "ssl.Get") : log[w][i].err = ErrNil /\ log[w][i].res = mcrt[w].domains

UpdateResult(e) == IF e.err = ErrNil THEN Nil ELSE Err(e.err, "client.Update")

\* The step is a call of worker w.
Step(w) == Len(log'[w]) = Len(log[w]) + 1

\* C14: converged pass.  A pass whose ssl.Get returned an equal resource found the
\* ManagedCertificate and an entry that is not soft deleted; after the Get it calls
\* CopyStatus and then client.Update, once, and returns what Update returned; it
\* calls neither SetSoftDeleted, Delete nor state.Delete and its steps leave the
\* entry's name and softDeleted flag alone; a successful Update stores the status
\* of the fetched resource and the domains that were stored before.  client.Update
\* is called in no other pass and no other call changes a stored ManagedCertificate.
C14_ConvergedPass ==
    /\ [](\A w \in Workers :
            /\ InSyncPass(w) =>
                  /\ mcrt[w].present
                  /\ \E i \in Calls(w, "state.IsSoftDeleted") :
                         log[w][i].res = "false" /\ log[w][i].err = ErrNil
                  /\ \A op \in DriftOps : ~Called(w, op)
                  /\ Cardinality(Calls(w, "client.Update")) <= 1
                  /\ \A i \in 1..Len(log[w]) :
                         /\ i = GetAt(w) + 1 => log[w][i].op = "certificates.CopyStatus"
                         /\ i = GetAt(w) + 2 => log[w][i].op = "client.Update"
                         /\ i <= GetAt(w) + 2
                  /\ (Done(w) /\ NoFailure(w)) =>
                         /\ Calls(w, "client.Update") = {Len(log[w])}
                         /\ ret[w] = Nil
                  /\ \A i \in Calls(w, "client.Update") :
                         Done(w) /\ ret[w] = UpdateResult(log[w][i])
                  /\ \A i \in Calls(w, "certificates.CopyStatus") :
                         log[w][i].err = ErrNil => pc[w] \in {"Update", "done"}
            /\ Called(w, "client.Update") => InSyncPass(w))
    /\ [][\A w \in Workers :
            /\ (InSyncPass(w) /\ Step(w)) =>
                  /\ state'[wid[w]].tracked = state[wid[w]].tracked
                  /\ state'[wid[w]].name = state[wid[w]].name
                  /\ state'[wid[w]].softDeleted = state[wid[w]].softDeleted
                  /\ ssl' = ssl
                  /\ mcrts'[wid[w]].present = mcrts[wid[w]].present
                  /\ mcrts'[wid[w]].domains = mcrts[wid[w]].domains
                  /\ mcrts'[wid[w]] # mcrts[wid[w]] =>
                         mcrts'[wid[w]].status = sslCert[w].status
            /\ (Step(w) /\ mcrts' # mcrts) =>
                  /\ InSyncPass(w)
                  /\ log'[w][Len(log'[w])].op = "client.Update"]_vars

\* a converged pass that stored the status of an active resource it did not create
C14_Witness ==
    /\ Done("w1") /\ InSyncPass("w1") /\ ret["w1"] = Nil
    /\ ~Called("w1", "ssl.Create")
    /\ Len(log["w1"]) = GetAt("w1") + 2
    /\ mcrts["a"].status = "Active"
    /\ mcrts["a"].domains = ssl[state["a"].name].domains


\* ------------------------------------------------------ convergence
\* Nothing but the pass itself has acted since the pass started.
Quiet(w) == envs = start[w].envs

\* C15: multi-pass convergence, for passes that run one at a time with no failing
\* call and no change from outside while they run.  (i) A pass that starts with a
\* ManagedCertificate and no entry ends with nil and the resource in place under
\* the recorded name with the desired domains, after one Create.  (ii) A pass
\* that starts with the recorded resource out of sync ends with
\* ErrSslCertificateOutOfSyncGotDeleted, the resource deleted and no entry, so
\* the pass after it is one of (i).  (iii) A pass that starts in the settled
\* state ends with nil, calls neither Create nor Delete and leaves the state
\* settled.  (iv) With passes repeated, the id of a present ManagedCertificate
\* ends up settled for good.
C15_MultiPassConvergence ==
    /\ [](\A w \in Workers :
            /\ (Done(w) /\ Quiet(w) /\ NoFailure(w) /\ start[w].kind = "new") =>
                  /\ ret[w] = Nil /\ Settled(wid[w])
                  /\ Cardinality(Calls(w, "ssl.Create")) = 1
                  /\ ~Called(w, "ssl.Delete")
            /\ (Done(w) /\ Quiet(w) /\ NoFailure(w) /\ start[w].kind = "outofsync") =>
                  /\ ret[w] = Err(ErrOutOfSync, "ensureSslCertificate")
                  /\ ~Called(w, "ssl.Create")
                  /\ Found(wid[w]) = "new"
            /\ (Quiet(w) /\ NoFailure(w) /\ start[w].kind = "settled") =>
                  /\ Settled(wid[w])
                  /\ ~Called(w, "ssl.Create") /\ ~Called(w, "ssl.Delete")
                  /\ Done(w) => ret[w] = Nil)
    /\ <>[](mcrts["a"].present => Settled("a"))

\* the pass after a remediation and a re-creation: the ManagedCertificate was
\* created and edited once, the second name is recorded, nothing is left to do
C15_Witness ==
    /\ Done("w1") /\ ret["w1"] = Nil /\ Settled("a")
    /\ ~Called("w1", "ssl.Create") /\ ~Called("w1", "ssl.Delete")
    /\ Called("w1", "client.Update")
    /\ envs = 2 /\ mcrts["a"].rv = 2 /\ state["a"].name = 2


\* -------------------------------------------------- excluded from SLO
ExcludedSaidTrue(e) == e.op = "state.IsExcludedFromSLO" /\ e.res = "true" /\ e.err = ErrNil
ExcludedSaidFalse(e) == e.op = "state.IsExcludedFromSLO" /\ e.res = "false" /\ e.err = ErrNil

LatencyOps == {"state.IsSslCertificateCreationReported", "metrics.Observe",
               "state.SetSslCertificateCreationReported"}

\* C16: excluded from SLO.  A pass that started with the excludedFromSLO flag of
\* its id set, or whose IsExcludedFromSLO answered true, makes no latency
\* observation and does not call SetSslCertificateCreationReported, whether it
\* created the resource or not; an observation is made and the reported flag is
\* set only by a pass whose IsExcludedFromSLO answered false; and the flag stays
\* set as long as the entry exists.
C16_ExcludedFromSLO ==
    /\ [](\A w \in Workers :
            /\ (start[w].excluded \/ \E i \in 1..Len(log[w]) : ExcludedSaidTrue(log[w][i])) =>
                  /\ \A op \in LatencyOps : ~Called(w, op)
                  /\ pc[w] \notin {"IsReported", "Observe", "SetReported"}
            /\ \A op \in LatencyOps : \A j \in Calls(w, op) :
                  j > 1 /\ \E i \in 1..(j - 1) : ExcludedSaidFalse(log[w][i]))
    /\ [][\A id \in Ids :
            /\ (observed'[id] > observed[id] \/ (state'[id].reported /\ ~state[id].reported)) =>
                  \E w \in Workers :
                      /\ wid[w] = id /\ Step(w) /\ ~start[w].excluded
                      /\ \E i \in 1..Len(log[w]) : ExcludedSaidFalse(log[w][i])
            /\ (state[id].tracked /\ state[id].excludedFromSLO /\ state'[id].tracked) =>
                  state'[id].excludedFromSLO]_vars

\* an excluded id whose resource vanished and was created again by a pass that
\* reported nothing
C16_Witness ==
    /\ Done("w1") /\ ret["w1"] = Nil /\ start["w1"].excluded
    /\ \E i \in Calls("w1", "ssl.Create") : log["w1"][i].err = ErrNil
    /\ \E i \in 1..Len(log["w1"]) : ExcludedSaidTrue(log["w1"][i])
    /\ state["a"].tracked /\ state["a"].excludedFromSLO /\ ~state["a"].reported
    /\ observed["a"] = 0


\* -------------------------------------------------------- no orphan
\* C17: no orphan.  With the passes of an id run one at a time, at every moment,
\* within a pass or between passes, at most one SslCertificate created for the
\* id exists, and when one exists the id has an entry that records its name.
C17_NoOrphan ==
    \A id \in Ids :
        /\ Cardinality(Owned(id)) <= 1
        /\ \A n \in Owned(id) : state[id].tracked /\ state[id].name = n


\* ------------------------------------------ marker precedes the delete
MarkFailedAt(w, i) == log[w][i].op = "state.SetSoftDeleted" /\ log[w][i].err # ErrNil

\* C18: the soft-delete marker precedes the Delete.  (i) On every path the call
\* right before a remote Delete is a SetSoftDeleted that returned nil, the entry
\* is marked when Delete is issued, and a failing SetSoftDeleted ends the pass
\* with its error.  (ii) When the Delete of a drift pass fails, the pass ends with
\* the entry marked and its name kept.  (iii) The mark stays as long as the entry
\* exists, and Create is never issued under a marked entry.  (iv) A pass that
\* finds the ManagedCertificate and the mark, and in which no call fails, deletes
\* the resource under the recorded name, removes the entry and returns nil, not
\* ErrSslCertificateOutOfSyncGotDeleted.
C18_MarkerPrecedesDelete ==
    /\ [](\A w \in Workers :
            /\ \A i \in Calls(w, "ssl.Delete") :
                  /\ i > 1
                  /\ log[w][i - 1].op = "state.SetSoftDeleted"
                  /\ log[w][i - 1].err = ErrNil
            /\ \A i \in 1..Len(log[w]) :
                  MarkFailedAt(w, i) =>
                      /\ i = Len(log[w]) /\ Done(w)
                      /\ ret[w] = Err(log[w][i].err, "state.SetSoftDeleted")
            /\ pc[w] = "SslDelete" =>
                  /\ state[wid[w]].tracked /\ state[wid[w]].softDeleted
                  /\ state[wid[w]].name = name[w]
            /\ \A i \in 1..Len(log[w]) :
                  (Drifted(w) /\ DeleteFailedAt(w, i)) =>
                      /\ Done(w) /\ ret[w] = Err(log[w][i].err, "ssl.Delete")
                      /\ state[wid[w]].tracked /\ state[wid[w]].softDeleted
                      /\ state[wid[w]].name = log[w][i].arg
            /\ pc[w] = "Create" => ~state[wid[w]].softDeleted
            /\ (SoftDeletedPass(w) /\ mcrt[w].present /\ Done(w) /\ NoFailure(w)) =>
                  /\ ret[w] = Nil
                  /\ ~state[wid[w]].tracked
                  /\ \E i \in Calls(w, "ssl.Delete") : log[w][i].arg = log[w][2].arg
                  /\ ~ssl[log[w][2].arg].present
                  /\ ~Called(w, "ssl.Create") /\ ~Called(w, "random.Name"))
    /\ [][\A id \in Ids :
            (state[id].softDeleted /\ state'[id].tracked) => state'[id].softDeleted]_vars

\* the pass after a drift pass whose Delete failed: the resource was still there,
\* the pass deleted it and returned nil
C18_Witness ==
    /\ Done("w1") /\ SoftDeletedPass("w1") /\ NoFailure("w1") /\ ret["w1"] = Nil
    /\ \E i \in Calls("w1", "ssl.Delete") : log["w1"][i].err = ErrNil
    /\ mcrts["a"].present /\ mcrts["a"].rv = 2 /\ envs = 2 /\ faults = 1
    /\ ~state["a"].tracked /\ Owned("a") = {}


\* ------------------------------------- latency only in the creating pass
ExistsSaidTrue(e) == e.op = "ssl.Exists" /\ e.res = "true" /\ e.err = ErrNil

ObserveOps == LatencyOps \cup {"state.IsExcludedFromSLO"}

\* The latency calls of a pass (IsExcludedFromSLO, IsSslCertificateCreationReported,
\* the observation, SetSslCertificateCreationReported) come after a Create of the
\* same pass that returned nil and before the pass's Get; a pass whose Exists
\* answered true makes none of them, also when the entry is not marked reported.
CreatingPassOnly(w) ==
    /\ \A op \in ObserveOps : \A j \in Calls(w, op) :
          /\ \E i \in Calls(w, "ssl.Create") : i < j /\ log[w][i].err = ErrNil
          /\ \A g \in Calls(w, "ssl.Get") : j < g
    /\ (\E i \in 1..Len(log[w]) : ExistsSaidTrue(log[w][i])) =>
          /\ \A op \in ObserveOps : ~Called(w, op)
          /\ pc[w] \notin {"Create", "IsExcludedFromSLO", "IsReported",
                           "Observe", "SetReported"}

\* C19, as stated: latency only in the creating pass, and once a creating pass has
\* ended between Create and the observation, the pass after it makes no
\* observation for the entry.
C19_NeverReportedLater ==
    \A w \in Workers :
        /\ CreatingPassOnly(w)
        /\ (start[w].pending /\ state[wid[w]].tracked) => ~Called(w, "metrics.Observe")

\* C19, amended: latency only in the creating pass; the count of observations
\* grows only by a step of a pass that created the resource; and once a creating
\* pass has ended between Create and the observation, the pass after it makes an
\* observation only if it creates the resource again, never when it finds it.
C19_LatencyOnlyInCreatingPass ==
    /\ [](\A w \in Workers :
            /\ CreatingPassOnly(w)
            /\ (start[w].pending /\ Called(w, "metrics.Observe")) =>
                  \E i \in 1..Len(log[w]) : ExistsSaidFalse(log[w][i]))
    /\ [][\A id \in Ids :
            observed'[id] > observed[id] =>
                \E w \in Workers :
                    /\ wid[w] = id /\ Step(w)
                    /\ \E i \in Calls(w, "ssl.Create") : log[w][i].err = ErrNil]_vars

\* the creating pass was aborted between Create and the observation; a later pass
\* found the resource, reported nothing and left the entry unreported
C19_Witness ==
    /\ Done("w1") /\ ret["w1"] = Nil /\ start["w1"].pending
    /\ \E i \in 1..Len(log["w1"]) : ExistsSaidTrue(log["w1"][i])
    /\ Settled("a")
    /\ ~state["a"].reported /\ ~state["a"].excludedFromSLO
    /\ observed["a"] = 0 /\ faults = 1 /\ nextName = 2


\* ------------------------------------------------ per-id isolation
\* Two workers, each reconciling its own id, interleave freely; no call fails.
\* Both ManagedCertificates exist at the start; one of them is edited and deleted.
InitIso ==
    /\ mcrts = [i \in Ids |->
            [present |-> TRUE, domains |-> "example.com", status |-> "None", rv |-> 0]]
    /\ state = [i \in Ids |-> NoEntry]
    /\ ssl = [n \in Names |-> NoCert]
    /\ nextName = 1
    /\ observed = [i \in Ids |-> 0]
    /\ faults = MaxFaults
    /\ envs = 0
    /\ pc = [w \in Workers |-> "idle"]
    /\ wid = [w \in Workers |-> "a"]
    /\ mcrt = [w \in Workers |-> NoMcrt]
    /\ name = [w \in Workers |-> 0]
    /\ via = [w \in Workers |-> "none"]
    /\ sslCert = [w \in Workers |-> NoCert]
    /\ ret = [w \in Workers |-> NoRet]
    /\ prevDrift = [w \in Workers |-> 0]
    /\ overlap = [i \in Ids |-> FALSE]
    /\ start = [w \in Workers |-> [id |-> "a", envs |-> 0, kind |-> "absent",
                                     excluded |-> FALSE, pending |-> FALSE]]
    /\ log = [w \in Workers |-> <<>>]

\* The caller enqueues an id when it is new, when its last pass returned an error
\* and when its ManagedCertificate is no longer the one that pass read.
Requeued(w, id) ==
    \/ pc[w] = "idle"
    \/ ret[w] # Nil
    \/ mcrts[id].present # mcrt[w].present
    \/ mcrts[id].rv # mcrt[w].rv

IsoStart(w, id) == Requeued(w, id) /\ SingleFlightStart(w, id)

NextIso ==
    \/ IsoStart("w1", "a") \/ IsoStart("w2", "b")
    \/ \E w \in Workers : Pass(w)
    \/ UserEdit("a") \/ UserDelete("a")

SpecIso == InitIso /\ [][NextIso]_vars

RemoteOps == {"ssl.Exists", "ssl.Create", "ssl.Get", "ssl.Delete"}

\* C20: per-id isolation.  A step of a pass called for id A leaves the entry, the
\* stored ManagedCertificate, the observation count and every SslCertificate of
\* each other id unchanged; the pass's Exists, Create, Get and Delete are issued
\* for the name A's entry records, which no other id's entry records; and a
\* resource it creates is owned by A.
C20_PerIdIsolation ==
    /\ [][\A w \in Workers : Step(w) =>
            \A id \in Ids \ {start[w].id} :
                /\ state'[id] = state[id]
                /\ mcrts'[id] = mcrts[id]
                /\ observed'[id] = observed[id]
                /\ \A n \in Names :
                       (ssl[n].owner = id \/ ssl'[n].owner = id) => ssl'[n] = ssl[n]]_vars
    /\ [](\A w \in Workers :
            /\ pc[w] \in {"Exists", "Create", "Get", "SslDelete"} =>
                  /\ state[start[w].id].tracked
                  /\ state[start[w].id].name = name[w]
            /\ \A i \in 1..Len(log[w]) :
                  log[w][i].op \in RemoteOps => log[w][i].arg = name[w]
            /\ \A id \in Ids \ {start[w].id} :
                  InFlight(w) /\ name[w] # 0 =>
                      /\ ~(state[id].tracked /\ state[id].name = name[w])
                      /\ name[w] \notin Owned(id))

\* both ids settled, each under its own name, after passes that interleaved
C20_Witness ==
    /\ Settled("a") /\ Settled("b")
    /\ state["a"].name # state["b"].name
    /\ InFlight("w1") /\ InFlight("w2")
    /\ Called("w1", "ssl.Create") /\ Called("w2", "ssl.Create")
    /\ start["w1"].id = "a" /\ start["w2"].id = "b"

====
